---- MODULE Spec2Model ----
(***************************************************************************)
(* Model of recipes/tinyexr/all/conanfile.py (class TinyExrConan).         *)
(*                                                                         *)
(* The state is one loaded recipe instance (its _header_only attribute,    *)
(* its requirement list, its cpp_info ...) together with the three folders *)
(* that outlive an instance: the source folder, the build folder and the   *)
(* package folder.  Load replaces the instance by a freshly constructed    *)
(* one and leaves the folders as they are.                                 *)
(***************************************************************************)
EXTENDS Integers, Sequences, FiniteSets, TLC

VARIABLES
    \* inputs of a run, fixed after Init
    archive,        \* file names in the upstream release fetched by get()
    headerText,     \* characters of tinyexr.h in the release
    licenseText,    \* characters of LICENSE in the release
    patches,        \* conandata.yml lists a patch for this version
    hostNT,         \* os.name == 'nt' in the interpreter running the recipe
    opts,           \* self.options
    os,             \* self.settings.os
    cppstd,         \* self.settings.compiler.cppstd
    \* source folder
    acquired,       \* get() has populated self.source_folder
    srcTree,        \* file names in self.source_folder
    srcHeader,      \* characters of tinyexr.h in self.source_folder
    treeMode,       \* what source() computed for the tree in the source folder
    \* build folder
    tcVariables,    \* tc.variables written by CMakeToolchain.generate()
    invoked,        \* toolchain steps that have run
    buildFiles,     \* files under self.build_folder
    buildStatus,    \* outcome of the last cmake run: "none", "ok", "failed"
    \* package folder
    pkgDirs,        \* directories under self.package_folder
    pkgLicense,     \* <<>> or <<text of licenses/LICENSE>>
    pkgInclude,     \* files under include/
    pkgLib,         \* files under lib/
    pkgBin,         \* files under bin/
    \* recipe instance
    header_only,    \* self._header_only: "unset", "True" or "False"
    requires,       \* requirements declared through self.requires
    reqCalls,       \* number of requirements() calls on this instance
    validation,     \* outcome of the last validate(): "none", "ok", "invalid"
    info_cleared,   \* self.info.clear() has run
    cpp_info,       \* self.cpp_info
    infoCalls,      \* number of package_info() calls on this instance
    phase,          \* the method that ran last
    acted           \* the build mode the last mode-dependent method acted on

inputVars == <<archive, headerText, licenseText, patches, hostNT, opts, os, cppstd>>
sourceVars == <<acquired, srcTree, srcHeader, treeMode>>
buildVars == <<tcVariables, invoked, buildFiles, buildStatus>>
packageVars == <<pkgDirs, pkgLicense, pkgInclude, pkgLib, pkgBin>>
instanceVars == <<header_only, requires, reqCalls, validation, info_cleared, cpp_info, infoCalls>>
vars == <<inputVars, sourceVars, buildVars, packageVars, instanceVars, phase, acted>>

(***************************************************************************)
(* Bounds                                                                  *)
(***************************************************************************)
MaxHeaderLines == 42
MaxCalls == 2

(***************************************************************************)
(* Options and settings                                                    *)
(***************************************************************************)
Options ==
    [with_z : {"zlib", "miniz"}, with_piz : BOOLEAN, with_zfp : BOOLEAN,
     with_thread : BOOLEAN, with_openmp : BOOLEAN, shared : BOOLEAN]

default_options ==
    [with_z |-> "miniz", with_piz |-> TRUE, with_zfp |-> FALSE,
     with_thread |-> FALSE, with_openmp |-> FALSE, shared |-> FALSE]

OSes == {"Linux", "FreeBSD", "Windows", "Macos"}

\* compiler.cppstd: num = 0 stands for a setting that is not defined
NoCppStd == [gnu |-> FALSE, num |-> 0]
CppStds == {NoCppStd} \cup [gnu : BOOLEAN, num : {98, 11, 17}]

Min(a, b) == IF a < b THEN a ELSE b

(***************************************************************************)
(* requirements()                                                          *)
(***************************************************************************)
\* self.requires(ref): the call is recorded, in call order
self_requires(reqs, ref) == Append(reqs, ref)

requirements_zfp_always(o, reqs) ==
    LET z == IF o.with_z = "miniz"
             THEN self_requires(reqs, "miniz/3.0.2")
             ELSE self_requires(reqs, "zlib/[>=1.2.11 <2]")
    IN  self_requires(z, "zfp/1.0.0")

requirements(o, reqs) ==
    LET z == IF o.with_z = "miniz"
             THEN self_requires(reqs, "miniz/3.0.2")
             ELSE self_requires(reqs, "zlib/[>=1.2.11 <2]")
    IN  IF o.with_zfp THEN self_requires(z, "zfp/1.0.0") ELSE z

(***************************************************************************)
(* validate()                                                              *)
(***************************************************************************)
\* conan.tools.build.check_min_cppstd: gnu is dropped, then "98" reads as
\* 1998 and every other value as 20xx before the two standards are compared;
\* a standard that is not defined is rejected
add_millennium(n) == IF n = 98 THEN 1998 ELSE 2000 + n

check_min_cppstd(std, minimum) ==
    IF add_millennium(std.num) < add_millennium(minimum) THEN "invalid" ELSE "ok"

validate_without_get_safe(o, std) ==
    IF o.with_thread THEN check_min_cppstd(std, 11) ELSE "ok"

validate(o, std) ==
    IF o.with_thread /\ std.num # 0 THEN check_min_cppstd(std, 11) ELSE "ok"

(***************************************************************************)
(* package_id(), package_info()                                            *)
(***************************************************************************)
\* getattr(self, "_header_only", False)
getattr_header_only(ho) == ho = "True"

\* the build mode a method acts on
ModeOf(ho) == IF getattr_header_only(ho) THEN "HeaderOnly" ELSE "Compiled"

\* cpp_info of a recipe instance before package_info() runs
NewCppInfo ==
    [defines |-> <<>>, libs |-> <<>>, system_libs |-> <<>>,
     bindirs |-> <<"bin">>, libdirs |-> <<"lib">>]

Flag(b) == IF b THEN 1 ELSE 0

package_info(ci, o, theOs, ho) ==
    LET d == ci.defines \o
             << <<"TINYEXR_USE_MINIZ", Flag(o.with_z = "miniz")>>,
                <<"TINYEXR_USE_PIZ", Flag(o.with_piz)>>,
                <<"TINYEXR_USE_ZFP", Flag(o.with_zfp)>>,
                <<"TINYEXR_USE_THREAD", Flag(o.with_thread)>>,
                <<"TINYEXR_USE_OPENMP", Flag(o.with_openmp)>> >>
        c1 == [ci EXCEPT !.defines = d]
        c2 == IF getattr_header_only(ho)
              THEN [c1 EXCEPT !.bindirs = <<>>, !.libdirs = <<>>]
              ELSE [c1 EXCEPT !.libs = <<"tinyexr">>]
    IN  IF theOs \in {"Linux", "FreeBSD"} /\ o.with_thread
        THEN [c2 EXCEPT !.system_libs = Append(@, "pthread")]
        ELSE c2

\* tc.variables set by generate()
OnOff(b) == IF b THEN "ON" ELSE "OFF"

tc_variables(o) ==
    [TINYEXR_USE_MINIZ |-> OnOff(o.with_z = "miniz"),
     TINYEXR_USE_PIZ |-> OnOff(o.with_piz),
     TINYEXR_USE_ZFP |-> OnOff(o.with_zfp),
     TINYEXR_USE_THREAD |-> OnOff(o.with_thread),
     TINYEXR_USE_OPENMP |-> OnOff(o.with_openmp),
     TINYEXR_BUILD_SAMPLE |-> "OFF",
     BUILD_SHARED_LIBS |-> OnOff(o.shared)]

(***************************************************************************)
(* _extracted_license                                                      *)
(***************************************************************************)
\* a text is a sequence of character codes; NL is '\n'
NL == 10
LicenseLines == 40

\* file.readlines(): the lines of a text, each with its terminating '\n'
RECURSIVE readlinesFrom(_, _, _)
readlinesFrom(text, i, cur) ==
    IF i > Len(text)
    THEN IF cur = <<>> THEN <<>> ELSE <<cur>>
    ELSE IF text[i] = NL
         THEN <<Append(cur, NL)>> \o readlinesFrom(text, i + 1, <<>>)
         ELSE readlinesFrom(text, i + 1, Append(cur, text[i]))

readlines(text) == readlinesFrom(text, 1, <<>>)

\* line.rstrip('\n')
RECURSIVE rstrip_nl(_)
rstrip_nl(line) ==
    IF line # <<>> /\ line[Len(line)] = NL
    THEN rstrip_nl(SubSeq(line, 1, Len(line) - 1))
    ELSE line

\* "\n".join(parts)
RECURSIVE join_nl(_)
join_nl(parts) ==
    IF parts = <<>> THEN <<>>
    ELSE IF Len(parts) = 1 THEN parts[1]
    ELSE parts[1] \o <<NL>> \o join_nl(Tail(parts))

\* range(min(0, len(content_lines)), min(40, len(content_lines)))
license_range_from_one(n) == [lo |-> Min(1, n), hi |-> Min(LicenseLines, n)]

license_range(n) == [lo |-> Min(0, n), hi |-> Min(LicenseLines, n)]

\* the indices range(lo, hi) walks over, in order
RangeSeq(r) == [k \in 1..(r.hi - r.lo) |-> r.lo + k - 1]

header_license(text) ==
    LET content_lines == readlines(text)
        idx == RangeSeq(license_range(Len(content_lines)))
    IN  join_nl([k \in 1..Len(idx) |-> rstrip_nl(content_lines[idx[k] + 1])])

_extracted_license(tree, licText, hdrText) ==
    IF "LICENSE" \in tree THEN licText
    ELSE IF "tinyexr.h" \in tree THEN header_license(hdrText)
    ELSE <<>>

(***************************************************************************)
(* package(): copying build output                                         *)
(***************************************************************************)
\* a file under the build folder: the directory it lies in, its name, its
\* extension; the build folder itself is the directory "."
BuildDirs == <<".", "sub">>

LibExts == {".lib", ".a", ".so", ".dylib"}
BinExts == {".exe", ".dll"}

\* fname.endswith(('.lib', '.a', '.so', '.dylib'))
IsLibName(f) == f.ext \in LibExts

\* os.name == 'nt' and (fname.endswith('.exe') or fname.endswith('.dll'))
IsBinName(f, nt) == nt /\ (f.ext = ".exe" \/ f.ext = ".dll")

\* copy(self, pattern=fname, src=root, dst=dst) for every chosen file of one
\* directory: dst/fname is created, or replaced when it is already there
copy_from_dir(dst, files) ==
    {e \in dst : ~\E f \in files : f.stem = e.stem /\ f.ext = e.ext}
    \cup {[stem |-> f.stem, ext |-> f.ext, from |-> f.dir] : f \in files}

\* for root, _dirs, files in os.walk(self.build_folder): top-down
RECURSIVE walk_copy(_, _, _)
walk_copy(dst, files, k) ==
    IF k > Len(BuildDirs) THEN dst
    ELSE walk_copy(copy_from_dir(dst, {f \in files : f.dir = BuildDirs[k]}),
                   files, k + 1)

(***************************************************************************)
(* Inputs                                                                  *)
(***************************************************************************)
\* files a release of tinyexr may hold at its top level
ReleaseFiles == {"tinyexr.cc", "tinyexr.h", "LICENSE"}

\* line k of a header: an empty line every fifth line, else one character
LineBody(k) == IF k % 5 = 0 THEN <<>> ELSE <<100 + (k % 3)>>

\* a header of n lines; the last one ends in '\n' iff nl
RECURSIVE HeaderOf(_, _)
HeaderOf(n, nl) ==
    IF n = 0 THEN <<>>
    ELSE HeaderOf(n - 1, TRUE) \o LineBody(n) \o (IF nl THEN <<NL>> ELSE <<>>)

HeaderTexts == {HeaderOf(n, nl) : n \in 0..MaxHeaderLines, nl \in BOOLEAN}

LicenseTexts == {<<>>, <<66, 83, 68, NL, 51, NL>>}

\* files cmake may leave under the build folder
ToolchainFiles ==
    {[dir |-> ".", stem |-> "tinyexr", ext |-> ".a"],
     [dir |-> "sub", stem |-> "tinyexr", ext |-> ".a"],
     [dir |-> ".", stem |-> "tinyexr", ext |-> ".dll"]}

(***************************************************************************)
(* Initial states                                                          *)
(***************************************************************************)
\* a freshly constructed recipe instance
NewInstance ==
    /\ header_only = "unset"
    /\ requires = <<>>
    /\ reqCalls = 0
    /\ validation = "none"
    /\ info_cleared = FALSE
    /\ cpp_info = NewCppInfo
    /\ infoCalls = 0

\* nothing fetched, generated, built or packaged yet
EmptyFolders ==
    /\ acquired = FALSE
    /\ srcTree = {}
    /\ srcHeader = <<>>
    /\ treeMode = "Unresolved"
    /\ tcVariables = <<>>
    /\ invoked = {}
    /\ buildFiles = {}
    /\ buildStatus = "none"
    /\ pkgDirs = {}
    /\ pkgLicense = <<>>
    /\ pkgInclude = {}
    /\ pkgLib = {}
    /\ pkgBin = {}
    /\ phase = "none"
    /\ acted = "none"

\* the pipeline: every layout of a release that ships the header, every
\* host and patch list
Init ==
    /\ archive \in {a \in SUBSET ReleaseFiles : "tinyexr.h" \in a}
    /\ headerText = HeaderOf(3, TRUE)
    /\ licenseText = <<66, 83, 68, NL, 51, NL>>
    /\ patches \in BOOLEAN
    /\ hostNT \in BOOLEAN
    /\ opts \in {default_options, [default_options EXCEPT !.shared = TRUE]}
    /\ os = "Linux"
    /\ cppstd = NoCppStd
    /\ EmptyFolders
    /\ NewInstance

\* the recipe's metadata methods: every option assignment and setting
InitRecipe ==
    /\ archive \in {{"tinyexr.h"}, {"tinyexr.h", "tinyexr.cc"}}
    /\ headerText = HeaderOf(3, TRUE)
    /\ licenseText = <<>>
    /\ patches = FALSE
    /\ hostNT = FALSE
    /\ opts \in Options
    /\ os \in OSes
    /\ cppstd \in CppStds
    /\ EmptyFolders
    /\ NewInstance

\* license extraction: every release layout, header length and patch list
InitLicense ==
    /\ archive \in SUBSET ReleaseFiles
    /\ headerText \in HeaderTexts
    /\ licenseText \in LicenseTexts
    /\ patches \in BOOLEAN
    /\ hostNT = FALSE
    /\ opts = default_options
    /\ os = "Linux"
    /\ cppstd = NoCppStd
    /\ EmptyFolders
    /\ NewInstance

(***************************************************************************)
(* Actions: one per recipe method                                          *)
(***************************************************************************)
\* the patch listed for the version appends the text "/*p*/" to tinyexr.h;
\* a file that already carries the patch is left as it is
PatchText == <<47, 42, 112, 42, 47>>

HasPatch(text) ==
    /\ Len(text) >= Len(PatchText)
    /\ SubSeq(text, Len(text) - Len(PatchText) + 1, Len(text)) = PatchText

apply_conandata_patches(text) ==
    IF HasPatch(text) THEN text ELSE text \o PatchText

\* a new recipe instance is constructed; the folders stay as they are
Load ==
    /\ header_only' = "unset"
    /\ requires' = <<>>
    /\ reqCalls' = 0
    /\ validation' = "none"
    /\ info_cleared' = FALSE
    /\ cpp_info' = NewCppInfo
    /\ infoCalls' = 0
    /\ phase' = "load"
    /\ acted' = "none"
    /\ UNCHANGED <<inputVars, sourceVars, buildVars, packageVars>>

Requirements ==
    /\ reqCalls < MaxCalls
    /\ requires' = requirements(opts, requires)
    /\ reqCalls' = reqCalls + 1
    /\ phase' = "requirements"
    /\ UNCHANGED <<inputVars, sourceVars, buildVars, packageVars, header_only,
                   validation, info_cleared, cpp_info, infoCalls, acted>>

Validate ==
    /\ validation' = validate(opts, cppstd)
    /\ phase' = "validate"
    /\ UNCHANGED <<inputVars, sourceVars, buildVars, packageVars, header_only,
                   requires, reqCalls, info_cleared, cpp_info, infoCalls, acted>>

\* get() unpacks the release, then the mode is read off the unpacked tree
Source ==
    /\ acquired' = TRUE
    /\ srcTree' = archive
    /\ srcHeader' = IF "tinyexr.h" \in archive THEN headerText ELSE <<>>
    /\ header_only' = IF "tinyexr.cc" \notin srcTree' THEN "True" ELSE "False"
    /\ treeMode' = IF header_only' = "True" THEN "HeaderOnly" ELSE "Compiled"
    /\ phase' = "source"
    /\ acted' = "none"
    /\ UNCHANGED <<inputVars, buildVars, packageVars, requires, reqCalls,
                   validation, info_cleared, cpp_info, infoCalls>>

PackageId ==
    /\ info_cleared' = (info_cleared \/ getattr_header_only(header_only))
    /\ phase' = "package_id"
    /\ acted' = ModeOf(header_only)
    /\ UNCHANGED <<inputVars, sourceVars, buildVars, packageVars, header_only,
                   requires, reqCalls, validation, cpp_info, infoCalls>>

Generate ==
    /\ IF getattr_header_only(header_only)
       THEN UNCHANGED <<tcVariables, invoked>>
       ELSE /\ tcVariables' = <<tc_variables(opts)>>
            /\ invoked' = invoked \cup {"CMakeToolchain", "CMakeDeps"}
    /\ phase' = "generate"
    /\ acted' = ModeOf(header_only)
    /\ UNCHANGED <<inputVars, sourceVars, buildFiles, buildStatus, packageVars,
                   instanceVars>>

\* apply_conandata_patches rewrites tinyexr.h under self.source_folder and
\* raises when the file to patch is missing; cmake.configure() and
\* cmake.build() raise on a non-zero exit status of cmake
Build(configureOk, buildOk, out) ==
    /\ phase' = "build"
    /\ IF patches /\ "tinyexr.h" \notin srcTree
       THEN UNCHANGED <<srcHeader, invoked, buildFiles, buildStatus, acted>>
       ELSE /\ srcHeader' = IF patches THEN apply_conandata_patches(srcHeader)
                                       ELSE srcHeader
            /\ acted' = ModeOf(header_only)
            /\ IF getattr_header_only(header_only)
               THEN UNCHANGED <<invoked, buildFiles, buildStatus>>
               ELSE IF ~configureOk
               THEN /\ invoked' = invoked \cup {"configure"}
                    /\ buildStatus' = "failed"
                    /\ UNCHANGED buildFiles
               ELSE /\ invoked' = invoked \cup {"configure", "build"}
                    /\ buildFiles' = buildFiles \cup out
                    /\ buildStatus' = IF buildOk THEN "ok" ELSE "failed"
    /\ UNCHANGED <<inputVars, acquired, srcTree, treeMode, tcVariables,
                   packageVars, instanceVars>>

Package ==
    /\ pkgLicense' = <<_extracted_license(srcTree, licenseText, srcHeader)>>
    /\ pkgInclude' = IF "tinyexr.h" \in srcTree
                     THEN {[name |-> "tinyexr.h", text |-> srcHeader]}
                     ELSE pkgInclude
    /\ IF getattr_header_only(header_only)
       THEN UNCHANGED <<pkgLib, pkgBin>>
       ELSE /\ pkgLib' = walk_copy(pkgLib, {f \in buildFiles : IsLibName(f)}, 1)
            /\ pkgBin' = walk_copy(pkgBin, {f \in buildFiles : IsBinName(f, hostNT)}, 1)
    /\ pkgDirs' = pkgDirs \cup {"licenses"}
                  \cup (IF pkgInclude' # {} THEN {"include"} ELSE {})
                  \cup (IF getattr_header_only(header_only) THEN {} ELSE {"lib", "bin"})
    /\ phase' = "package"
    /\ acted' = ModeOf(header_only)
    /\ UNCHANGED <<inputVars, sourceVars, buildVars, instanceVars>>

PackageInfo ==
    /\ infoCalls < MaxCalls
    /\ cpp_info' = package_info(cpp_info, opts, os, header_only)
    /\ infoCalls' = infoCalls + 1
    /\ phase' = "package_info"
    /\ acted' = ModeOf(header_only)
    /\ UNCHANGED <<inputVars, sourceVars, buildVars, packageVars, header_only,
                   requires, reqCalls, validation, info_cleared>>

(***************************************************************************)
(* Specifications                                                          *)
(***************************************************************************)
Next ==
    \/ Load
    \/ Source
    \/ PackageId
    \/ Generate
    \/ Build(FALSE, FALSE, {})
    \/ \E buildOk \in BOOLEAN, out \in SUBSET ToolchainFiles :
            Build(TRUE, buildOk, out)
    \/ Package
    \/ PackageInfo

Spec == Init /\ [][Next]_vars

NextRecipe ==
    \/ Load
    \/ Source
    \/ Requirements
    \/ Validate
    \/ PackageId
    \/ PackageInfo

SpecRecipe == InitRecipe /\ [][NextRecipe]_vars

NextLicense ==
    \/ Load
    \/ Source
    \/ Build(TRUE, TRUE, {})
    \/ Package

SpecLicense == InitLicense /\ [][NextLicense]_vars

(***************************************************************************)
(* Properties                                                              *)
(***************************************************************************)

\* C1: once source() has determined the mode of the tree, every later
\* mode-dependent method (package_id, generate, build, package,
\* package_info) acts on that mode, also on an instance on which source()
\* did not run.
C1_ModeIsOneShot ==
    (treeMode # "Unresolved" /\ acted # "none") => acted = treeMode

\* C2: for a source tree whose mode is HeaderOnly no step runs
\* CMakeToolchain, CMakeDeps, cmake.configure or cmake.build.
C2_ToolchainOnlyWhenCompiled ==
    [][treeMode = "HeaderOnly" => invoked' \subseteq invoked]_vars

\* C3: after package() on a HeaderOnly tree the package holds the public
\* header under include/ and no other artifact, and lib/ and bin/ exist and
\* are empty.
C3_HeaderOnlyPackage ==
    (phase = "package" /\ treeMode = "HeaderOnly") =>
        /\ \A h \in pkgInclude : h.name = "tinyexr.h"
        /\ {"lib", "bin"} \subseteq pkgDirs
        /\ pkgLib = {}
        /\ pkgBin = {}

\* the copies of build file f in a package directory
CopiesOf(f, dir) ==
    {e \in dir : e.stem = f.stem /\ e.ext = f.ext /\ e.from = f.dir}

\* C4: after package() on a Compiled tree that was built, every file of the
\* build folder with a library extension is exactly once under lib/ and
\* every file with a binary extension exactly once under bin/.
C4_EveryArtifactOnce ==
    (phase = "package" /\ treeMode = "Compiled" /\ buildStatus = "ok") =>
        \A f \in buildFiles :
            /\ f.ext \in LibExts => Cardinality(CopiesOf(f, pkgLib)) = 1
            /\ f.ext \in BinExts => Cardinality(CopiesOf(f, pkgBin)) = 1

\* C5: while the failed build of a Compiled tree stands, no step puts a file
\* under lib/ or bin/.
C5_NoPackagingAfterBuildFailure ==
    [][(treeMode = "Compiled" /\ buildStatus = "failed"
            /\ buildStatus' = "failed" /\ pkgLib = {} /\ pkgBin = {})
        => (pkgLib' = {} /\ pkgBin' = {})]_vars

\* C6: whatever the mode and however often requirements() ran, every call
\* declared the same list: miniz or else zlib, followed by zfp iff with_zfp,
\* each once.
C6_RequirementsPure ==
    LET declared == (IF opts.with_z = "miniz" THEN <<"miniz/3.0.2">>
                                             ELSE <<"zlib/[>=1.2.11 <2]">>)
                    \o (IF opts.with_zfp THEN <<"zfp/1.0.0">> ELSE <<>>)
        n == Len(declared)
    IN  /\ Len(requires) = reqCalls * n
        /\ \A i \in 1..Len(requires) : requires[i] = declared[((i - 1) % n) + 1]
        /\ \A i, j \in 1..n : declared[i] = declared[j] => i = j

C6_Witness ==
    /\ reqCalls = MaxCalls
    /\ opts.with_z = "zlib"
    /\ opts.with_zfp
    /\ header_only = "True"
    /\ Len(requires) = 2 * MaxCalls

\* C7: validate() rejects the configuration exactly when with_thread is on
\* and a C++ standard older than C++11 is configured, and changes nothing
\* but its own outcome.
C7_ValidateOutcome ==
    [][phase' = "validate" =>
        /\ validation' = "invalid" <=>
                (opts.with_thread /\ cppstd.num # 0 /\ cppstd.num = 98)
        /\ validation' \in {"ok", "invalid"}
        /\ UNCHANGED <<inputVars, sourceVars, buildVars, packageVars,
                       header_only, requires, reqCalls, info_cleared,
                       cpp_info, infoCalls, acted>>]_vars

C7_Witness ==
    /\ phase = "validate"
    /\ validation = "invalid"
    /\ cppstd.gnu
    /\ opts.with_thread

\* C8: every package_info() call emits the five defines with the value of
\* their option, and pthread iff with_thread on Linux or FreeBSD; the
\* library list is empty for a HeaderOnly tree and tinyexr for a Compiled
\* one.
C8_PackageInfo ==
    (phase = "package_info" /\ treeMode # "Unresolved") =>
        LET five == << <<"TINYEXR_USE_MINIZ", IF opts.with_z = "miniz" THEN 1 ELSE 0>>,
                       <<"TINYEXR_USE_PIZ", IF opts.with_piz THEN 1 ELSE 0>>,
                       <<"TINYEXR_USE_ZFP", IF opts.with_zfp THEN 1 ELSE 0>>,
                       <<"TINYEXR_USE_THREAD", IF opts.with_thread THEN 1 ELSE 0>>,
                       <<"TINYEXR_USE_OPENMP", IF opts.with_openmp THEN 1 ELSE 0>> >>
            threads == opts.with_thread /\ os \in {"Linux", "FreeBSD"}
        IN  /\ Len(cpp_info.defines) = 5 * infoCalls
            /\ \A i \in 1..Len(cpp_info.defines) :
                    cpp_info.defines[i] = five[((i - 1) % 5) + 1]
            /\ Len(cpp_info.system_libs) = IF threads THEN infoCalls ELSE 0
            /\ \A i \in 1..Len(cpp_info.system_libs) :
                    cpp_info.system_libs[i] = "pthread"
            /\ cpp_info.libs = IF treeMode = "HeaderOnly" THEN <<>> ELSE <<"tinyexr">>

\* the text before the n-th '\n' of a text, or the text without its final
\* '\n' when it has fewer than n of them
FirstLines(text, n) ==
    LET nls == {i \in 1..Len(text) : text[i] = NL}
    IN  IF Cardinality(nls) >= n
        THEN LET cut == CHOOSE i \in nls : Cardinality({j \in nls : j <= i}) = n
             IN  SubSeq(text, 1, cut - 1)
        ELSE IF text # <<>> /\ text[Len(text)] = NL
             THEN SubSeq(text, 1, Len(text) - 1)
             ELSE text

\* C9: package() writes to licenses/LICENSE the text of LICENSE when the
\* tree has one, else the first 40 lines of tinyexr.h as it lies in the
\* source folder (all of them when there are fewer) joined by '\n' when the
\* tree has the header, else nothing; the line range of a non-empty header
\* is not empty.
C9_LicenseFallbackChain ==
    phase = "package" =>
        /\ Len(pkgLicense) = 1
        /\ IF "LICENSE" \in srcTree THEN pkgLicense[1] = licenseText
           ELSE IF "tinyexr.h" \in srcTree
           THEN /\ pkgLicense[1] = FirstLines(srcHeader, 40)
                /\ srcHeader # <<>> =>
                       LET r == license_range(Len(readlines(srcHeader)))
                       IN  r.lo = 0 /\ r.lo < r.hi
           ELSE pkgLicense[1] = <<>>

C9_Witness ==
    /\ phase = "package"
    /\ "LICENSE" \notin srcTree
    /\ "tinyexr.h" \in srcTree
    /\ Len(readlines(srcHeader)) > LicenseLines
    /\ Len(pkgLicense[1]) > 0
    /\ Len(pkgLicense[1]) < Len(srcHeader) - 1

\* C10: after acquisition the source folder holds the release as it was
\* unpacked: no later method changes a file in it.
C10_SourceTreeReadOnly ==
    acquired =>
        /\ srcTree = archive
        /\ srcHeader = IF "tinyexr.h" \in archive THEN headerText ELSE <<>>

====
